---------------------------- MODULE Spec2Model ----------------------------
(***************************************************************************)
(* Model of the Character / Jutsu / Task management API.                   *)
(*                                                                         *)
(* The store is three tables (functions from id to row).  Every action is  *)
(* one HTTP handler of src/app/routers/api.py (or, for Task, one method of *)
(* TaskService, which no router mounts): schema parsing, the service       *)
(* method with its try/except, the commit, and the status code the         *)
(* handler answers with.  A handler body contains no await, so handlers    *)
(* run one after the other on the event loop: one action per handler.      *)
(*                                                                         *)
(* Conventions: a text (a Python str) is the sequence of its characters;   *)
(* None of a text field is NoneText, None of an enumeration field is None, *)
(* None of an integer or datetime field is 0 (ids, chakra costs and clock  *)
(* readings are all >= 1).                                                 *)
(***************************************************************************)
EXTENDS Integers, Sequences, FiniteSets, TLC

VARIABLES
    characters,   \* table character: id -> row
    jutsus,       \* table jutsu: id -> row
    tasks,        \* table task: id -> row
    now,          \* reading of the clock (datetime.now)
    assigned,     \* history: per table, the ids ever assigned by an INSERT
    resp,         \* the request being answered: handler, arguments, status,
                  \* returned value and the tables as the handler found
                  \* them; Idle between two requests
    requests,     \* the requests in flight, when their sessions are followed:
                  \* position, session, handler, arguments, answer
    sessions      \* the Session objects get_session has created

vars == <<characters, jutsus, tasks, now, assigned, resp, requests, sessions>>

-----------------------------------------------------------------------------
(* Bounds *)

\* Largest id a table may assign in the model (creates are disabled above it).
MaxId == 2
\* Largest clock reading.
MaxTime == 3
\* Largest page number and page size requested from a listing.
MaxPage == 3
MaxSize == 3
\* The largest id of a table that is listed.
MaxRows == 3
\* The number of sessions get_session may create.
MaxSessions == 3

-----------------------------------------------------------------------------
(* Values *)

None == "None"
NoneInt == 0
\* None where a text may stand: no text has a character of four letters.
NoneText == <<"None">>

Max(S) == CHOOSE x \in S : \A y \in S : y <= x

\* The empty table, also the empty request body.
Empty == [i \in {} |-> 0]

\* The None a method returns, and the value of a call that raised.
NoValue == Empty

\* f with key k removed / with key k bound to v.
Without(f, k) == [i \in DOMAIN f \ {k} |-> f[i]]
With(f, k, v) == [i \in DOMAIN f \cup {k} |-> IF i = k THEN v ELSE f[i]]

-----------------------------------------------------------------------------
(* Exceptions and HTTP statuses *)

NoExc == [type |-> "none", status_code |-> 0]
HTTPException(code) == [type |-> "HTTPException", status_code |-> code]
AttributeError == [type |-> "AttributeError", status_code |-> 0]
IntegrityError == [type |-> "IntegrityError", status_code |-> 0]
\* pydantic's ValidationError, raised by the constructor of a schema.
ValidationError == [type |-> "ValidationError", status_code |-> 0]

HTTP_200_OK == 200
HTTP_201_CREATED == 201
HTTP_204_NO_CONTENT == 204
HTTP_400_BAD_REQUEST == 400
HTTP_404_NOT_FOUND == 404
HTTP_422_UNPROCESSABLE_ENTITY == 422
HTTP_500_INTERNAL_SERVER_ERROR == 500

\* `except HTTPException: raise` followed by `except Exception: raise
\* HTTPException(code)`: what leaves the method when e was raised in its try.
ReraiseHTTP(e, code) ==
    IF e.type = "HTTPException" THEN e ELSE HTTPException(code)

\* `except Exception: raise HTTPException(code)` alone: an HTTPException
\* raised in the try block is an Exception too and is replaced like any other.
CatchAll(e, code) == HTTPException(code)

\* The status a handler answers with: the decorator's status_code when the
\* service returned, exc.status_code (http_exception_handler) when it raised.
StatusOf(r, success) ==
    IF r.exc.type = "none" THEN success ELSE r.exc.status_code

-----------------------------------------------------------------------------
(* Schemas (src/app/schemas.py).  A request body is a function from field  *)
(* names to values.  The constructor of a schema raises ValidationError    *)
(* when the body fails the declaration of a field; otherwise the instance   *)
(* keeps the declared fields only (pydantic ignores extra keys), gives an   *)
(* absent field its default, and remembers which fields the body set.       *)

\* Declarations of fields.  name: str = Field(..., min_length=lo,
\* max_length=hi) is StrField(lo, hi): required, never None.
StrField(lo, hi) ==
    [kind |-> "str", required |-> TRUE, nullable |-> FALSE, default |-> NoneText,
     lo |-> lo, hi |-> hi]
\* name: Optional[str] = Field(None, min_length=lo, max_length=hi).
OptionalStrField(lo, hi) ==
    [kind |-> "str", required |-> FALSE, nullable |-> TRUE, default |-> NoneText,
     lo |-> lo, hi |-> hi]
\* chakra_cost: int = Field(..., ge=ge).
IntField(ge) ==
    [kind |-> "int", required |-> TRUE, nullable |-> FALSE, default |-> NoneInt, ge |-> ge]
\* chakra_cost: Optional[int] = Field(None, ge=ge).
OptionalIntField(ge) ==
    [kind |-> "int", required |-> FALSE, nullable |-> TRUE, default |-> NoneInt, ge |-> ge]
\* status: TaskStatus = default, a member of an enumeration.
EnumField(values, default) ==
    [kind |-> "enum", required |-> FALSE, nullable |-> FALSE, default |-> default,
     values |-> values]
\* status: Optional[TaskStatus] = None; none is the None of the members' type.
OptionalEnumField(values, none) ==
    [kind |-> "enum", required |-> FALSE, nullable |-> TRUE, default |-> none,
     values |-> values]

\* The body fails the declaration of field f: a required field is absent,
\* None stands where the type has no None, or the value breaks a constraint.
FieldError(decl, body, f) ==
    IF f \notin DOMAIN body THEN decl.required
    ELSE IF decl.kind # "enum" /\ body[f] = decl.default THEN ~decl.nullable
    ELSE IF decl.kind = "str" THEN Len(body[f]) < decl.lo \/ Len(body[f]) > decl.hi
    ELSE IF decl.kind = "int" THEN body[f] < decl.ge
    ELSE body[f] \notin decl.values /\ ~(decl.nullable /\ body[f] = decl.default)

Schema(decls, body) ==
    LET errors == {f \in DOMAIN decls : FieldError(decls[f], body, f)}
    IN  IF errors # {}
        THEN [exc |-> ValidationError, errors |-> errors, data |-> Empty, fields_set |-> {}]
        ELSE [exc |-> NoExc, errors |-> {},
              data |-> [f \in DOMAIN decls |->
                          IF f \in DOMAIN body THEN body[f] ELSE decls[f].default],
              fields_set |-> DOMAIN decls \cap DOMAIN body]

JutsuBaseFields == {"name", "type", "chakra_cost"}
CharacterBaseFields == {"name", "village", "rank"}

JutsuCreate(body) ==
    Schema([name |-> StrField(1, 100), type |-> StrField(1, 50),
            chakra_cost |-> IntField(1)], body)
JutsuUpdate(body) ==
    Schema([name |-> OptionalStrField(1, 100), type |-> OptionalStrField(1, 50),
            chakra_cost |-> OptionalIntField(1)], body)
CharacterCreate(body) ==
    Schema([name |-> StrField(1, 100), village |-> StrField(1, 50),
            rank |-> OptionalStrField(0, 50)], body)
CharacterUpdate(body) ==
    Schema([name |-> OptionalStrField(1, 100), village |-> OptionalStrField(1, 50),
            rank |-> OptionalStrField(0, 50)], body)

\* obj.f on a schema instance: AttributeError unless f is a declared field.
HasAttr(obj, f) == f \in DOMAIN obj.data

\* obj.model_dump() and obj.model_dump(exclude_unset=True).
model_dump(obj) == obj.data
model_dump_exclude_unset(obj) == [f \in obj.fields_set |-> obj.data[f]]

\* Python truthiness of an Optional[int] / Optional[str] value.
Truthy(v) == v # NoneInt
TruthyText(v) == v # NoneText /\ v # <<>>

\* for key, value in update_data.items(): setattr(row, key, value)
SetAttrs(row, update_data) ==
    [f \in DOMAIN row \cup DOMAIN update_data |->
        IF f \in DOMAIN update_data THEN update_data[f] ELSE row[f]]

-----------------------------------------------------------------------------
(* Models (src/app/models.py) and the store *)

\* The id an INSERT with id = None receives.  The tables are SQLite tables
\* with `id INTEGER NOT NULL, PRIMARY KEY (id)` (no AUTOINCREMENT), so the
\* id is one more than the largest id currently in the table.
NextId(table) == IF DOMAIN table = {} THEN 1 ELSE Max(DOMAIN table) + 1

\* Character(**data): id None until the INSERT.  Each timestamp is the
\* value of its own call of get_utc_now(): created_at is the reading of the
\* clock when the constructor starts, updated_at the reading of the call
\* after it, which is the same reading or a later one.
Character(data, later) ==
    SetAttrs([id |-> NoneInt, name |-> NoneText, village |-> NoneText, rank |-> NoneText,
              created_at |-> now, updated_at |-> later], data)

\* Jutsu(**data), its two timestamps read like those of Character.
Jutsu(data, later) ==
    SetAttrs([id |-> NoneInt, name |-> NoneText, type |-> NoneText, chakra_cost |-> 10,
              created_at |-> now, updated_at |-> later, character_id |-> NoneInt],
             data)

\* Columns declared without Optional are NOT NULL: a flush writing None into
\* one of them raises IntegrityError.
CharacterNotNull(row) == row.name # NoneText /\ row.village # NoneText
JutsuNotNull(row) ==
    row.name # NoneText /\ row.type # NoneText /\ row.chakra_cost # NoneInt

\* What a service method hands back: the exception leaving it (NoExc when it
\* returned), its return value, the tables after it, and the reading of the
\* clock when it ends.
Returned(value, cs, js) ==
    [exc |-> NoExc, ret |-> value, characters |-> cs, jutsus |-> js, now |-> now]
Raised(e) ==
    [exc |-> e, ret |-> NoValue, characters |-> characters, jutsus |-> jutsus, now |-> now]

\* The method has built a row: the clock reads what the row's last timestamp
\* read.
ClockAt(r, later) == [r EXCEPT !.now = later]

\* FastAPI builds the schema instance from the request body before it calls
\* the handler: a body the schema rejects is answered by
\* validation_exception_handler, the handler and the service do not run.
RequestValidationError ==
    [type |-> "RequestValidationError", status_code |-> HTTP_422_UNPROCESSABLE_ENTITY]
Validated(obj, r) == IF obj.exc # NoExc THEN Raised(RequestValidationError) ELSE r

-----------------------------------------------------------------------------
(* CharacterService (src/app/services/character_service.py) *)

CharacterService_create(character, later) ==
    LET db_character == Character(model_dump(character), later)
        id == NextId(characters)
        row == [db_character EXCEPT !.id = id]
    IN  IF ~CharacterNotNull(db_character)
        THEN ClockAt(Raised(CatchAll(IntegrityError, HTTP_400_BAD_REQUEST)), later)
        ELSE ClockAt(Returned(row, With(characters, id, row), jutsus), later)

CharacterService_get_by_id(character_id) ==
    IF character_id \notin DOMAIN characters
    THEN Raised(ReraiseHTTP(HTTPException(HTTP_404_NOT_FOUND),
                            HTTP_500_INTERNAL_SERVER_ERROR))
    ELSE Returned(characters[character_id], characters, jutsus)

\* Variant of CharacterService_update: updated_at is set to the time of the
\* update.
CharacterService_update_touching(character_id, character_update) ==
    LET got == CharacterService_get_by_id(character_id)
        update_data == model_dump_exclude_unset(character_update)
        db_character == [SetAttrs(got.ret, update_data) EXCEPT !.updated_at = now]
    IN  IF got.exc # NoExc
        THEN Raised(ReraiseHTTP(got.exc, HTTP_400_BAD_REQUEST))
        ELSE IF ~CharacterNotNull(db_character)
        THEN Raised(ReraiseHTTP(IntegrityError, HTTP_400_BAD_REQUEST))
        ELSE Returned(db_character,
                      With(characters, character_id, db_character), jutsus)

\* Variant of CharacterService_update: the row is locked by the request in
\* flight that updated it.
CharacterService_update_locked(character_id, character_update) ==
    IF \E p \in DOMAIN requests : /\ requests[p].pc = "handled"
                                  /\ requests[p].op = "update_character"
                                  /\ requests[p].args.id = character_id
    THEN Raised(CatchAll(IntegrityError, HTTP_400_BAD_REQUEST))
    ELSE
    LET got == CharacterService_get_by_id(character_id)
        update_data == model_dump_exclude_unset(character_update)
        db_character == SetAttrs(got.ret, update_data)
    IN  IF got.exc # NoExc
        THEN Raised(ReraiseHTTP(got.exc, HTTP_400_BAD_REQUEST))
        ELSE IF ~CharacterNotNull(db_character)
        THEN Raised(ReraiseHTTP(IntegrityError, HTTP_400_BAD_REQUEST))
        ELSE Returned(db_character,
                      With(characters, character_id, db_character), jutsus)

CharacterService_update(character_id, character_update) ==
    LET got == CharacterService_get_by_id(character_id)
        update_data == model_dump_exclude_unset(character_update)
        db_character == SetAttrs(got.ret, update_data)
    IN  IF got.exc # NoExc
        THEN Raised(ReraiseHTTP(got.exc, HTTP_400_BAD_REQUEST))
        ELSE IF ~CharacterNotNull(db_character)
        THEN Raised(ReraiseHTTP(IntegrityError, HTTP_400_BAD_REQUEST))
        ELSE Returned(db_character,
                      With(characters, character_id, db_character), jutsus)

\* Variant of CharacterService_delete: the jutsus of the character keep
\* their character_id.
CharacterService_delete_keeps_jutsus(character_id) ==
    LET got == CharacterService_get_by_id(character_id)
    IN  IF got.exc # NoExc
        THEN Raised(ReraiseHTTP(got.exc, HTTP_500_INTERNAL_SERVER_ERROR))
        ELSE Returned(NoValue, Without(characters, character_id), jutsus)

\* session.delete(character); commit().  The relationship Character.jutsus
\* has no delete cascade, so the unit of work first sets character_id of the
\* character's jutsus to NULL and then deletes the character row.
CharacterService_delete(character_id) ==
    LET got == CharacterService_get_by_id(character_id)
    IN  IF got.exc # NoExc
        THEN Raised(ReraiseHTTP(got.exc, HTTP_500_INTERNAL_SERVER_ERROR))
        ELSE Returned(NoValue, Without(characters, character_id),
                      [j \in DOMAIN jutsus |->
                          IF jutsus[j].character_id = character_id
                          THEN [jutsus[j] EXCEPT !.character_id = NoneInt]
                          ELSE jutsus[j]])

\* Variant of CharacterService_add_jutsu: the jutsu is created without the
\* character_id of the path.
CharacterService_add_jutsu_unowned(character_id, jutsu, later) ==
    LET got == CharacterService_get_by_id(character_id)
        db_jutsu == Jutsu(model_dump(jutsu), later)
        id == NextId(jutsus)
        row == [db_jutsu EXCEPT !.id = id]
    IN  IF got.exc # NoExc
        THEN Raised(ReraiseHTTP(got.exc, HTTP_400_BAD_REQUEST))
        ELSE ClockAt(Returned(row, characters, With(jutsus, id, row)), later)

CharacterService_add_jutsu(character_id, jutsu, later) ==
    LET got == CharacterService_get_by_id(character_id)
        data == model_dump(jutsu)
        db_jutsu == Jutsu(SetAttrs(data, [character_id |-> character_id]), later)
        id == NextId(jutsus)
        row == [db_jutsu EXCEPT !.id = id]
    IN  IF got.exc # NoExc
        THEN Raised(ReraiseHTTP(got.exc, HTTP_400_BAD_REQUEST))
        ELSE IF "character_id" \in DOMAIN data
        THEN Raised(ReraiseHTTP([type |-> "TypeError", status_code |-> 0],
                                HTTP_400_BAD_REQUEST))
        ELSE IF ~JutsuNotNull(db_jutsu)
        THEN ClockAt(Raised(ReraiseHTTP(IntegrityError, HTTP_400_BAD_REQUEST)), later)
        ELSE ClockAt(Returned(row, characters, With(jutsus, id, row)), later)

-----------------------------------------------------------------------------
(* JutsuService (src/app/services/jutsu_service.py) *)

\* Variant of JutsuService_create: the character is not looked up, the jutsu
\* is inserted as the schema instance gives it.
JutsuService_create_unchecked(jutsu, later) ==
    LET db_jutsu == Jutsu(model_dump(jutsu), later)
        id == NextId(jutsus)
        row == [db_jutsu EXCEPT !.id = id]
    IN  ClockAt(Returned(row, characters, With(jutsus, id, row)), later)

\* The try block reads jutsu.character_id first; its only handler is
\* `except Exception`, which also receives the 404 raised inside the try.
JutsuService_create(jutsu, later) ==
    LET db_jutsu == Jutsu(model_dump(jutsu), later)
        id == NextId(jutsus)
        row == [db_jutsu EXCEPT !.id = id]
    IN  IF ~HasAttr(jutsu, "character_id")
        THEN Raised(CatchAll(AttributeError, HTTP_400_BAD_REQUEST))
        ELSE IF Truthy(jutsu.data.character_id)
                /\ jutsu.data.character_id \notin DOMAIN characters
        THEN Raised(CatchAll(HTTPException(HTTP_404_NOT_FOUND), HTTP_400_BAD_REQUEST))
        ELSE IF ~JutsuNotNull(db_jutsu)
        THEN ClockAt(Raised(CatchAll(IntegrityError, HTTP_400_BAD_REQUEST)), later)
        ELSE ClockAt(Returned(row, characters, With(jutsus, id, row)), later)

JutsuService_get_by_id(jutsu_id) ==
    IF jutsu_id \notin DOMAIN jutsus
    THEN Raised(ReraiseHTTP(HTTPException(HTTP_404_NOT_FOUND),
                            HTTP_500_INTERNAL_SERVER_ERROR))
    ELSE Returned(jutsus[jutsu_id], characters, jutsus)

JutsuService_update(jutsu_id, jutsu_update) ==
    LET got == JutsuService_get_by_id(jutsu_id)
        update_data == model_dump_exclude_unset(jutsu_update)
        db_jutsu == SetAttrs(got.ret, update_data)
    IN  IF got.exc # NoExc
        THEN Raised(ReraiseHTTP(got.exc, HTTP_400_BAD_REQUEST))
        ELSE IF ~HasAttr(jutsu_update, "character_id")
        THEN Raised(ReraiseHTTP(AttributeError, HTTP_400_BAD_REQUEST))
        ELSE IF jutsu_update.data.character_id # NoneInt
                /\ jutsu_update.data.character_id \notin DOMAIN characters
        THEN Raised(ReraiseHTTP(HTTPException(HTTP_404_NOT_FOUND), HTTP_400_BAD_REQUEST))
        ELSE IF ~JutsuNotNull(db_jutsu)
        THEN Raised(ReraiseHTTP(IntegrityError, HTTP_400_BAD_REQUEST))
        ELSE Returned(db_jutsu, characters, With(jutsus, jutsu_id, db_jutsu))

\* Variant of JutsuService_delete: deleting an absent jutsu is a success.
JutsuService_delete_idempotent(jutsu_id) ==
    Returned(NoValue, characters, Without(jutsus, jutsu_id))

JutsuService_delete(jutsu_id) ==
    LET got == JutsuService_get_by_id(jutsu_id)
    IN  IF got.exc # NoExc
        THEN Raised(ReraiseHTTP(got.exc, HTTP_500_INTERNAL_SERVER_ERROR))
        ELSE Returned(NoValue, characters, Without(jutsus, jutsu_id))

-----------------------------------------------------------------------------
(* Task: the model class and the schemas TaskService imports.              *)

TaskStatuses == {"pending", "in_progress", "completed", "cancelled"}
\* TaskPriority: low = 1, medium = 2, high = 3.
TaskPriorities == {1, 2, 3}

TaskBaseFields == {"title", "description", "status", "priority"}

TaskCreate(body) ==
    Schema([title |-> StrField(1, 100), description |-> OptionalStrField(0, 1000),
            status |-> EnumField(TaskStatuses, "pending"),
            priority |-> EnumField(TaskPriorities, 2)], body)
TaskUpdate(body) ==
    Schema([title |-> OptionalStrField(1, 100), description |-> OptionalStrField(0, 1000),
            status |-> OptionalEnumField(TaskStatuses, None),
            priority |-> OptionalEnumField(TaskPriorities, NoneInt)],
           body)

\* Task(**data).
Task(data) ==
    SetAttrs([id |-> NoneInt, title |-> NoneText, description |-> NoneText,
              start_date |-> NoneInt, end_date |-> NoneInt,
              status |-> "pending", priority |-> 2, created_at |-> now], data)

TaskNotNull(row) ==
    row.title # NoneText /\ row.status # None /\ row.priority # NoneInt

TReturned(value, ts) == [exc |-> NoExc, ret |-> value, tasks |-> ts]
TRaised(e) == [exc |-> e, ret |-> NoValue, tasks |-> tasks]

-----------------------------------------------------------------------------
(* TaskService (src/app/services/task_service.py) *)

TaskService_create(task) ==
    LET db_task == Task(model_dump(task))
        id == NextId(tasks)
        row == [db_task EXCEPT !.id = id]
    IN  IF ~TaskNotNull(db_task)
        THEN TRaised(CatchAll(IntegrityError, HTTP_400_BAD_REQUEST))
        ELSE TReturned(row, With(tasks, id, row))

TaskService_get_by_id(task_id) ==
    IF task_id \notin DOMAIN tasks
    THEN TRaised(ReraiseHTTP(HTTPException(HTTP_404_NOT_FOUND),
                             HTTP_500_INTERNAL_SERVER_ERROR))
    ELSE TReturned(tasks[task_id], tasks)

\* The status stamps of update: start_date on "in_progress", end_date on
\* "completed" or "canceled" (the spelling the code compares with).
StampStatus(db_task, update_data) ==
    IF "status" \notin DOMAIN update_data THEN db_task
    ELSE IF update_data["status"] = "in_progress"
         THEN [db_task EXCEPT !.start_date = now]
    ELSE IF update_data["status"] \in {"completed", "canceled"}
         THEN [db_task EXCEPT !.end_date = now]
    ELSE db_task

TaskService_update(task_id, task_update) ==
    LET got == TaskService_get_by_id(task_id)
        update_data == model_dump_exclude_unset(task_update)
        db_task == StampStatus(SetAttrs(got.ret, update_data), update_data)
    IN  IF got.exc # NoExc
        THEN TRaised(ReraiseHTTP(got.exc, HTTP_400_BAD_REQUEST))
        ELSE IF ~TaskNotNull(db_task)
        THEN TRaised(ReraiseHTTP(IntegrityError, HTTP_400_BAD_REQUEST))
        ELSE TReturned(db_task, With(tasks, task_id, db_task))

TaskService_delete(task_id) ==
    LET got == TaskService_get_by_id(task_id)
    IN  IF got.exc # NoExc
        THEN TRaised(ReraiseHTTP(got.exc, HTTP_500_INTERNAL_SERVER_ERROR))
        ELSE TReturned(NoValue, Without(tasks, task_id))

-----------------------------------------------------------------------------
(* Listing: the filter, the count and the page (get_all of each service) *)

\* The ASCII letters, upper case and lower case.
UpperCase ==
    <<"A", "B", "C", "D", "E", "F", "G", "H", "I", "J", "K", "L", "M",
      "N", "O", "P", "Q", "R", "S", "T", "U", "V", "W", "X", "Y", "Z">>
LowerCase ==
    <<"a", "b", "c", "d", "e", "f", "g", "h", "i", "j", "k", "l", "m",
      "n", "o", "p", "q", "r", "s", "t", "u", "v", "w", "x", "y", "z">>

\* LIKE compares ASCII letters without regard to case: an upper-case ASCII
\* letter counts as its lower-case letter, any other character as itself.
Lower(c) ==
    IF \E k \in DOMAIN UpperCase : UpperCase[k] = c
    THEN LowerCase[CHOOSE k \in DOMAIN UpperCase : UpperCase[k] = c]
    ELSE c

\* text LIKE pattern: % matches any run of characters, _ any one character.
RECURSIVE Like(_, _)
Like(text, pattern) ==
    IF pattern = <<>> THEN text = <<>>
    ELSE IF Head(pattern) = "%"
         THEN Like(text, Tail(pattern))
              \/ (text # <<>> /\ Like(Tail(text), pattern))
    ELSE /\ text # <<>>
         /\ (Head(pattern) = "_" \/ Lower(Head(pattern)) = Lower(Head(text)))
         /\ Like(Tail(text), Tail(pattern))

\* column.contains(search): column LIKE '%' || search || '%'.
contains(column, search) ==
    column # NoneText /\ Like(column, <<"%">> \o search \o <<"%">>)

\* The ids of S in ascending order (ORDER BY id).
RECURSIVE order_by_id(_)
order_by_id(S) ==
    IF S = {} THEN <<>>
    ELSE LET m == CHOOSE x \in S : \A y \in S : x <= y
         IN  <<m>> \o order_by_id(S \ {m})

\* Variant of OffsetLimit: an offset past the end falls back to the first
\* rows.
OffsetLimit_wrapping(seq, offset, limit) ==
    IF offset >= Len(seq) THEN SubSeq(seq, 1, IF limit < Len(seq) THEN limit ELSE Len(seq))
    ELSE SubSeq(seq, offset + 1, IF offset + limit < Len(seq) THEN offset + limit ELSE Len(seq))

\* seq OFFSET offset LIMIT limit.
OffsetLimit(seq, offset, limit) ==
    IF offset >= Len(seq) THEN <<>>
    ELSE SubSeq(seq, offset + 1, IF offset + limit < Len(seq) THEN offset + limit ELSE Len(seq))

\* Variant of Pages: the quotient rounded down.
Pages_floor(total, size) == total \div size

\* pages = (total + size - 1) // size
Pages(total, size) == (total + size - 1) \div size

\* Variant of Offset: the page number counted from 0.
Offset_from_zero(page, size) == page * size

\* offset = (page - 1) * size
Offset(page, size) == (page - 1) * size

\* Variant of PageResponse: has_next also on the last page.
PageResponse_next_on_last(table, matching, page, size) ==
    LET total == Cardinality(matching)
        pages == Pages(total, size)
        ids == OffsetLimit(order_by_id(matching), Offset(page, size), size)
    IN  [items |-> [k \in 1..Len(ids) |-> table[ids[k]]],
         total |-> total, page |-> page, size |-> size, pages |-> pages,
         has_next |-> page <= pages, has_prev |-> page > 1]

\* The body of get_all after the filter: matching is the set of ids the
\* WHERE clause keeps.
PageResponse(table, matching, page, size) ==
    LET total == Cardinality(matching)
        pages == Pages(total, size)
        ids == OffsetLimit(order_by_id(matching), Offset(page, size), size)
    IN  [items |-> [k \in 1..Len(ids) |-> table[ids[k]]],
         total |-> total, page |-> page, size |-> size, pages |-> pages,
         has_next |-> page < pages, has_prev |-> page > 1]

CharacterFilter(search) ==
    {i \in DOMAIN characters :
        TruthyText(search) =>
            contains(characters[i].name, search) \/ contains(characters[i].village, search)}

JutsuFilter(search, character_id) ==
    {i \in DOMAIN jutsus :
        /\ TruthyText(search) => contains(jutsus[i].name, search)
        /\ Truthy(character_id) => jutsus[i].character_id = character_id}

TaskFilter(search) ==
    {i \in DOMAIN tasks : TruthyText(search) => contains(tasks[i].title, search)}

\* Variant of CharacterService_get_all: a page past the last one is an error.
CharacterService_get_all_strict(page, size, search) ==
    IF page > Pages(Cardinality(CharacterFilter(search)), size)
    THEN Raised(HTTPException(HTTP_404_NOT_FOUND))
    ELSE Returned(PageResponse(characters, CharacterFilter(search), page, size),
                  characters, jutsus)

CharacterService_get_all(page, size, search) ==
    Returned(PageResponse(characters, CharacterFilter(search), page, size),
             characters, jutsus)

JutsuService_get_all(page, size, search, character_id) ==
    Returned(PageResponse(jutsus, JutsuFilter(search, character_id), page, size),
             characters, jutsus)

TaskService_get_all(page, size, search) ==
    TReturned(PageResponse(tasks, TaskFilter(search), page, size), tasks)

-----------------------------------------------------------------------------
(* Requests: the request bodies and parameters the model sends *)

Ids == 1..(MaxId + 1)

\* The texts of the requests.
Text_abc == <<"a", "b", "c">>
Text_ABC == <<"A", "B", "C">>
Text_xbz == <<"x", "b", "z">>
Text_a_c == <<"a", "_", "c">>
Text_zzz == <<"z", "z", "z">>
Text_lea == <<"l", "e", "a">>
Text_LEA == <<"L", "E", "A">>
Text_gen == <<"g", "e", "n">>
Text_nin == <<"n", "i", "n">>

\* The second body lacks the required village.
CharacterCreateBodies ==
    {[name |-> Text_abc, village |-> Text_lea], [name |-> Text_abc]}

CharacterUpdateBodies ==
    {Empty, [name |-> Text_xbz], [name |-> NoneText]}

\* The last body lacks the required chakra_cost.
JutsuCreateBodies ==
    {[name |-> Text_nin, type |-> Text_gen, chakra_cost |-> c] : c \in {1, 10}}
    \cup {[name |-> Text_nin, type |-> Text_gen, chakra_cost |-> 1, character_id |-> k] :
             k \in Ids}
    \cup {[name |-> Text_nin, type |-> Text_gen]}

JutsuUpdateBodies ==
    {Empty, [chakra_cost |-> 5]}
    \cup {[character_id |-> k] : k \in Ids}

-----------------------------------------------------------------------------
(* Sessions (src/app/database.py, src/app/dependencies.py): the requests in *)
(* flight and the Session each of them was given.                          *)

\* Two requests can be in flight.
Requests == {"a", "b"}

\* A request that has not arrived: no session, no handler.
NoRequest ==
    [pc |-> "idle", session |-> 0, op |-> "none", args |-> [id |-> 0, body |-> Empty],
     status |-> 0, body |-> NoValue, total |-> 0, matched |-> {}, saw |-> {}]

\* A Session that was not created yet.  A created Session is open, then
\* closed; status is the answer of the handler that used it, stale is set
\* when a handler used it after it was closed.
NoSession == [state |-> "unused", status |-> 0, stale |-> FALSE]

-----------------------------------------------------------------------------
(* Handlers (src/app/routers/api.py): one action per request *)

\* No request is being answered.
Idle ==
    [op |-> "none", args |-> [id |-> 0, body |-> Empty], status |-> 0, body |-> NoValue,
     before |-> [characters |-> Empty, jutsus |-> Empty, tasks |-> Empty,
                 assigned |-> [character |-> {}, jutsu |-> {}, task |-> {}]]]

\* The tables and the id history as the handler found them.
Before ==
    [characters |-> characters, jutsus |-> jutsus, tasks |-> tasks, assigned |-> assigned]

\* A handler runs from start to end: the tables are as the service left them
\* (a method that raised committed nothing), the clock reads what the
\* service last read, and the response is ready.
Answer(op, args, r, success) ==
    /\ resp.op = "none"
    /\ (DOMAIN r.characters \ DOMAIN characters) \subseteq 1..MaxId
    /\ (DOMAIN r.jutsus \ DOMAIN jutsus) \subseteq 1..MaxId
    /\ characters' = r.characters
    /\ jutsus' = r.jutsus
    /\ assigned' = [assigned EXCEPT
           !.character = @ \cup (DOMAIN r.characters \ DOMAIN characters),
           !.jutsu = @ \cup (DOMAIN r.jutsus \ DOMAIN jutsus)]
    /\ now' = r.now
    /\ resp' = [op |-> op, args |-> args, status |-> StatusOf(r, success), body |-> r.ret,
                before |-> Before]
    /\ UNCHANGED <<tasks, requests, sessions>>

\* later, in the handlers that create a row, is the reading of the clock
\* when the row's updated_at is set.
create_character(body, later) ==
    Answer("create_character", [id |-> 0, body |-> body],
           Validated(CharacterCreate(body),
                     CharacterService_create(CharacterCreate(body), later)),
           HTTP_201_CREATED)

read_character(character_id) ==
    Answer("read_character", [id |-> character_id, body |-> Empty],
           CharacterService_get_by_id(character_id), HTTP_200_OK)

update_character(character_id, body) ==
    Answer("update_character", [id |-> character_id, body |-> body],
           Validated(CharacterUpdate(body),
                     CharacterService_update(character_id, CharacterUpdate(body))),
           HTTP_200_OK)

delete_character(character_id) ==
    Answer("delete_character", [id |-> character_id, body |-> Empty],
           CharacterService_delete(character_id), HTTP_204_NO_CONTENT)

add_jutsu_to_character(character_id, body, later) ==
    Answer("add_jutsu_to_character", [id |-> character_id, body |-> body],
           Validated(JutsuCreate(body),
                     CharacterService_add_jutsu(character_id, JutsuCreate(body), later)),
           HTTP_201_CREATED)

create_jutsu(body, later) ==
    Answer("create_jutsu", [id |-> 0, body |-> body],
           Validated(JutsuCreate(body), JutsuService_create(JutsuCreate(body), later)),
           HTTP_201_CREATED)

read_jutsu(jutsu_id) ==
    Answer("read_jutsu", [id |-> jutsu_id, body |-> Empty],
           JutsuService_get_by_id(jutsu_id), HTTP_200_OK)

update_jutsu(jutsu_id, body) ==
    Answer("update_jutsu", [id |-> jutsu_id, body |-> body],
           Validated(JutsuUpdate(body), JutsuService_update(jutsu_id, JutsuUpdate(body))),
           HTTP_200_OK)

delete_jutsu(jutsu_id) ==
    Answer("delete_jutsu", [id |-> jutsu_id, body |-> Empty],
           JutsuService_delete(jutsu_id), HTTP_204_NO_CONTENT)

\* The response is sent; the event loop takes the next request.
Send ==
    /\ resp.op # "none"
    /\ resp' = Idle
    /\ UNCHANGED <<characters, jutsus, tasks, now, assigned, requests, sessions>>

\* The clock advances.
Tick ==
    /\ resp.op = "none"
    /\ now < MaxTime
    /\ now' = now + 1
    /\ UNCHANGED <<characters, jutsus, tasks, assigned, resp, requests, sessions>>

-----------------------------------------------------------------------------
(* Specification of the mounted application: characters and jutsus, while  *)
(* the clock stands still.                                                 *)

Init ==
    /\ characters = Empty
    /\ jutsus = Empty
    /\ tasks = Empty
    /\ now = 1
    /\ assigned = [character |-> {}, jutsu |-> {}, task |-> {}]
    /\ resp = Idle
    /\ requests = [q \in Requests |-> NoRequest]
    /\ sessions = [s \in 1..MaxSessions |-> NoSession]

Next ==
    \/ \E body \in CharacterCreateBodies : create_character(body, now)
    \/ \E id \in Ids : read_character(id)
    \/ \E id \in Ids, body \in CharacterUpdateBodies : update_character(id, body)
    \/ \E id \in Ids : delete_character(id)
    \/ \E id \in Ids, body \in JutsuCreateBodies : add_jutsu_to_character(id, body, now)
    \/ \E body \in JutsuCreateBodies : create_jutsu(body, now)
    \/ \E id \in Ids : read_jutsu(id)
    \/ \E id \in Ids, body \in JutsuUpdateBodies : update_jutsu(id, body)
    \/ \E id \in Ids : delete_jutsu(id)
    \/ Send

Spec == Init /\ [][Next]_vars

-----------------------------------------------------------------------------
(* Task requests: no router mounts TaskService, each action is one call of *)
(* a TaskService method, answered like a handler.                          *)

TaskCreateBodies == {[title |-> Text_abc]}

TaskUpdateBodies ==
    {Empty, [title |-> Text_xbz]} \cup {[status |-> st] : st \in TaskStatuses}

TaskAnswer(op, args, r, success) ==
    /\ resp.op = "none"
    /\ (DOMAIN r.tasks \ DOMAIN tasks) \subseteq 1..MaxId
    /\ tasks' = r.tasks
    /\ assigned' = [assigned EXCEPT !.task = @ \cup (DOMAIN r.tasks \ DOMAIN tasks)]
    /\ resp' = [op |-> op, args |-> args, status |-> StatusOf(r, success), body |-> r.ret,
                before |-> Before]
    /\ UNCHANGED <<characters, jutsus, now, requests, sessions>>

create_task(body) ==
    TaskAnswer("create_task", [id |-> 0, body |-> body],
               TaskService_create(TaskCreate(body)), HTTP_201_CREATED)

read_task(task_id) ==
    TaskAnswer("read_task", [id |-> task_id, body |-> Empty],
               TaskService_get_by_id(task_id), HTTP_200_OK)

update_task(task_id, body) ==
    TaskAnswer("update_task", [id |-> task_id, body |-> body],
               TaskService_update(task_id, TaskUpdate(body)), HTTP_200_OK)

delete_task(task_id) ==
    TaskAnswer("delete_task", [id |-> task_id, body |-> Empty],
               TaskService_delete(task_id), HTTP_204_NO_CONTENT)

-----------------------------------------------------------------------------
(* Specification of the life cycle of rows in the three tables: creations  *)
(* and deletions only, one body per schema.                                *)

LifecycleJutsuBody == [name |-> Text_nin, type |-> Text_gen, chakra_cost |-> 1]

NextLifecycle ==
    \/ \E body \in CharacterCreateBodies : create_character(body, now)
    \/ \E id \in Ids : delete_character(id)
    \/ \E id \in Ids : add_jutsu_to_character(id, LifecycleJutsuBody, now)
    \/ \E id \in Ids : delete_jutsu(id)
    \/ \E body \in TaskCreateBodies : create_task(body)
    \/ \E id \in Ids : delete_task(id)
    \/ Send

SpecLifecycle == Init /\ [][NextLifecycle]_vars

-----------------------------------------------------------------------------
(* Specification of the listings: the tables hold any rows the creations   *)
(* and deletions above can leave and stay as they are; every request is a  *)
(* listing.                                                                *)

Names == {Text_abc, Text_ABC, Text_xbz}

\* The search parameter: absent, or a text of at least 3 characters.
SearchTerms == {NoneText, Text_abc, Text_a_c, Text_zzz, Text_LEA}

read_characters(page, size, search) ==
    Answer("read_characters", [page |-> page, size |-> size, search |-> search],
           CharacterService_get_all(page, size, search), HTTP_200_OK)

read_jutsus(page, size, search) ==
    Answer("read_jutsus", [page |-> page, size |-> size, search |-> search],
           JutsuService_get_all(page, size, search, NoneInt), HTTP_200_OK)

read_tasks(page, size, search) ==
    TaskAnswer("read_tasks", [page |-> page, size |-> size, search |-> search],
               TaskService_get_all(page, size, search), HTTP_200_OK)

\* The three tables hold rows under the same ids, named alike; the Jutsu
\* with id i belongs to the Character with id i.
InitPage ==
    \E S \in SUBSET (1..MaxRows) : \E name \in [S -> Names] :
        /\ now = 1
        /\ characters =
               [i \in S |->
                   [Character(model_dump(CharacterCreate(
                        [name |-> name[i], village |-> Text_lea])), now) EXCEPT !.id = i]]
        /\ jutsus =
               [i \in S |->
                   [Jutsu(SetAttrs(model_dump(JutsuCreate(
                        [name |-> name[i], type |-> Text_gen, chakra_cost |-> 1])),
                        [character_id |-> i]), now) EXCEPT !.id = i]]
        /\ tasks =
               [i \in S |->
                   [Task(model_dump(TaskCreate([title |-> name[i]]))) EXCEPT !.id = i]]
        /\ assigned = [t \in {"character", "jutsu", "task"} |->
                          IF S = {} THEN {} ELSE 1..Max(S)]
        /\ resp = Idle
        /\ requests = [q \in Requests |-> NoRequest]
        /\ sessions = [s \in 1..MaxSessions |-> NoSession]

NextPage ==
    \/ \E page \in 1..MaxPage, size \in 1..MaxSize, search \in SearchTerms :
           read_characters(page, size, search)
    \/ \E page \in 1..MaxPage, size \in 1..MaxSize, search \in SearchTerms :
           read_jutsus(page, size, search)
    \/ \E page \in 1..MaxPage, size \in 1..MaxSize, search \in SearchTerms :
           read_tasks(page, size, search)
    \/ Send

SpecPage == InitPage /\ [][NextPage]_vars

-----------------------------------------------------------------------------
(* Specification of the tasks over time: creations and updates while the   *)
(* clock advances.                                                         *)

NextTask ==
    \/ \E body \in TaskCreateBodies : create_task(body)
    \/ \E id \in Ids, body \in TaskUpdateBodies : update_task(id, body)
    \/ Tick
    \/ Send

SpecTask == Init /\ [][NextTask]_vars

-----------------------------------------------------------------------------
(* Requests with their sessions.  A request is three steps: get_session    *)
(* up to its yield (run in the thread pool), the handler (on the event     *)
(* loop, from start to end), and the rest of get_session, which leaves the *)
(* with block whether the handler returned or raised.                      *)

\* Session(engine): a new Session object, never one that exists already.
NewSession ==
    CHOOSE s \in 1..MaxSessions :
        /\ sessions[s].state = "unused"
        /\ \A k \in 1..(s - 1) : sessions[k].state # "unused"

\* get_session up to `yield session`.
get_session(q) ==
    /\ requests[q].pc = "idle"
    /\ \E s \in 1..MaxSessions : sessions[s].state = "unused"
    /\ sessions' = [sessions EXCEPT ![NewSession].state = "open"]
    /\ requests' = [requests EXCEPT ![q] = [NoRequest EXCEPT !.pc = "ready",
                                                             !.session = NewSession]]
    /\ UNCHANGED <<characters, jutsus, tasks, now, assigned, resp>>

\* Variant of get_session_exit: the session is closed only after a handler
\* that returned (no with block around the yield).
get_session_exit_on_success(q) ==
    /\ requests[q].pc = "handled"
    /\ sessions' = [sessions EXCEPT ![requests[q].session].state =
                        IF requests[q].status < HTTP_400_BAD_REQUEST THEN "closed" ELSE @]
    /\ requests' = [requests EXCEPT ![q] = NoRequest]
    /\ UNCHANGED <<characters, jutsus, tasks, now, assigned, resp>>

\* get_session after the yield: `with Session(engine) as session` is left,
\* by the handler's return or by its exception, and closes the session.
get_session_exit(q) ==
    /\ requests[q].pc = "handled"
    /\ sessions' = [sessions EXCEPT ![requests[q].session].state = "closed"]
    /\ requests' = [requests EXCEPT ![q] = NoRequest]
    /\ UNCHANGED <<characters, jutsus, tasks, now, assigned, resp>>

\* Variant of LoopBusy: a handler in the middle of its body lets other
\* handlers run.
LoopBusy_never == FALSE

\* A handler is in the middle of its body: it holds the event loop until it
\* returns, there being no await in it.
LoopBusy == \E p \in Requests : requests[p].pc = "counted"

\* The handler of request q runs from start to end with the session q was
\* given; saw is the set of sessions of the requests answered before it and
\* still in flight.
Serve(q, op, args, r, success) ==
    /\ requests[q].pc = "ready"
    /\ ~LoopBusy
    /\ (DOMAIN r.characters \ DOMAIN characters) \subseteq 1..MaxId
    /\ (DOMAIN r.jutsus \ DOMAIN jutsus) \subseteq 1..MaxId
    /\ characters' = r.characters
    /\ jutsus' = r.jutsus
    /\ assigned' = [assigned EXCEPT
           !.character = @ \cup (DOMAIN r.characters \ DOMAIN characters),
           !.jutsu = @ \cup (DOMAIN r.jutsus \ DOMAIN jutsus)]
    /\ requests' = [requests EXCEPT ![q] =
           [pc |-> "handled", session |-> requests[q].session, op |-> op, args |-> args,
            status |-> StatusOf(r, success), body |-> r.ret, total |-> 0, matched |-> {},
            saw |-> {requests[p].session :
                        p \in {x \in Requests : requests[x].pc = "handled"}}]]
    /\ sessions' = [sessions EXCEPT ![requests[q].session] =
           [@ EXCEPT !.status = StatusOf(r, success),
                     !.stale = @ \/ sessions[requests[q].session].state # "open"]]
    /\ UNCHANGED <<tasks, now, resp>>

serve_create_character(q, body) ==
    Serve(q, "create_character", [id |-> 0, body |-> body],
          Validated(CharacterCreate(body),
                    CharacterService_create(CharacterCreate(body), now)),
          HTTP_201_CREATED)

serve_read_character(q, character_id) ==
    Serve(q, "read_character", [id |-> character_id, body |-> Empty],
          CharacterService_get_by_id(character_id), HTTP_200_OK)

serve_update_character(q, character_id, body) ==
    Serve(q, "update_character", [id |-> character_id, body |-> body],
          Validated(CharacterUpdate(body),
                    CharacterService_update(character_id, CharacterUpdate(body))),
          HTTP_200_OK)

serve_delete_character(q, character_id) ==
    Serve(q, "delete_character", [id |-> character_id, body |-> Empty],
          CharacterService_delete(character_id), HTTP_204_NO_CONTENT)

-----------------------------------------------------------------------------
(* Specification of characters and jutsus over time: creations and updates *)
(* while the clock advances, also between the two readings a creation      *)
(* takes; one jutsu at most.                                               *)

\* What the clock can read after the reading now.
Readings == now..MaxTime

NextTime ==
    \/ \E body \in CharacterCreateBodies, later \in Readings :
           create_character(body, later)
    \/ \E id \in Ids, body \in CharacterUpdateBodies : update_character(id, body)
    \/ \E id \in Ids, later \in Readings :
           jutsus = Empty /\ add_jutsu_to_character(id, LifecycleJutsuBody, later)
    \/ \E id \in Ids, body \in JutsuUpdateBodies : update_jutsu(id, body)
    \/ Tick
    \/ Send

SpecTime == Init /\ [][NextTime]_vars

-----------------------------------------------------------------------------
(* Specification of two requests updating characters while both are in     *)
(* flight.                                                                 *)

RaceUpdateBodies ==
    {[name |-> Text_xbz], [name |-> Text_ABC, rank |-> Text_gen], [rank |-> Text_nin],
     [name |-> NoneText]}

NextRace ==
    \/ \E q \in Requests : get_session(q)
    \/ \E q \in Requests, body \in CharacterCreateBodies : serve_create_character(q, body)
    \/ \E q \in Requests, id \in Ids, body \in RaceUpdateBodies :
           serve_update_character(q, id, body)
    \/ \E q \in Requests : get_session_exit(q)

SpecRace == Init /\ [][NextRace]_vars

-----------------------------------------------------------------------------
(* The listing handler in two steps, one for each query of get_all: the    *)
(* count query, then the items query and the PageResponse.                 *)

\* The sessions of the requests answered and still in flight.
Answered == {requests[p].session : p \in {x \in Requests : requests[x].pc = "handled"}}

\* session.exec(select(func.count()).select_from(query)).one()
CountQuery(matching) == Cardinality(matching)

\* session.exec(query.offset(offset).limit(size)).all()
ItemsQuery(table, matching, page, size) ==
    LET ids == OffsetLimit(order_by_id(matching), Offset(page, size), size)
    IN  [k \in 1..Len(ids) |-> table[ids[k]]]

\* PageResponse(items=items, total=total, page=page, size=size, pages=pages, ...)
PageResponseOf(total, items, page, size) ==
    [items |-> items, total |-> total, page |-> page, size |-> size,
     pages |-> Pages(total, size),
     has_next |-> page < Pages(total, size), has_prev |-> page > 1]

\* read_characters up to the count query; matched remembers the rows the
\* count query counted.
read_characters_count(q, page, size, search) ==
    /\ requests[q].pc = "ready"
    /\ ~LoopBusy
    /\ requests' = [requests EXCEPT ![q] =
           [pc |-> "counted", session |-> requests[q].session, op |-> "read_characters",
            args |-> [page |-> page, size |-> size, search |-> search],
            status |-> 0, body |-> NoValue,
            total |-> CountQuery(CharacterFilter(search)),
            matched |-> CharacterFilter(search), saw |-> Answered]]
    /\ sessions' = [sessions EXCEPT ![requests[q].session].stale =
                        @ \/ sessions[requests[q].session].state # "open"]
    /\ UNCHANGED <<characters, jutsus, tasks, now, assigned, resp>>

\* read_characters from the items query to the return.
read_characters_items(q) ==
    /\ requests[q].pc = "counted"
    /\ requests' = [requests EXCEPT ![q] =
           [@ EXCEPT !.pc = "handled", !.status = HTTP_200_OK,
                     !.body = PageResponseOf(
                                  requests[q].total,
                                  ItemsQuery(characters,
                                             CharacterFilter(requests[q].args.search),
                                             requests[q].args.page, requests[q].args.size),
                                  requests[q].args.page, requests[q].args.size)]]
    /\ sessions' = [sessions EXCEPT ![requests[q].session] =
           [@ EXCEPT !.status = HTTP_200_OK,
                     !.stale = @ \/ sessions[requests[q].session].state # "open"]]
    /\ UNCHANGED <<characters, jutsus, tasks, now, assigned, resp>>

-----------------------------------------------------------------------------
(* Specification of listings among creations and deletions by other        *)
(* requests in flight.                                                     *)

ListRaceSearchTerms == {NoneText, Text_abc}

NextListRace ==
    \/ \E q \in Requests : get_session(q)
    \/ \E q \in Requests, body \in CharacterCreateBodies : serve_create_character(q, body)
    \/ \E q \in Requests, id \in Ids : serve_delete_character(q, id)
    \/ \E q \in Requests, page \in 1..MaxPage, size \in 1..MaxSize,
           search \in ListRaceSearchTerms : read_characters_count(q, page, size, search)
    \/ \E q \in Requests : read_characters_items(q)
    \/ \E q \in Requests : get_session_exit(q)

SpecListRace == Init /\ [][NextListRace]_vars

-----------------------------------------------------------------------------
(* Specification of the sessions: requests that return and requests that   *)
(* raise.  Once its session is there the framework calls the handler, and  *)
(* once the handler is done it resumes get_session: both steps are taken   *)
(* when they can be.                                                       *)

HandleSession(q) ==
    \/ \E body \in CharacterCreateBodies : serve_create_character(q, body)
    \/ \E id \in Ids : serve_read_character(q, id)
    \/ \E id \in Ids : serve_delete_character(q, id)

NextSessions ==
    \/ \E q \in Requests : get_session(q)
    \/ \E q \in Requests : HandleSession(q)
    \/ \E q \in Requests : get_session_exit(q)

SpecSessions ==
    /\ Init
    /\ [][NextSessions]_vars
    /\ \A q \in Requests : WF_vars(HandleSession(q)) /\ WF_vars(get_session_exit(q))

-----------------------------------------------------------------------------
(* Properties.  They are stated on the response being sent: resp.before    *)
(* holds the tables the handler started from, the variables hold the       *)
(* tables it left.                                                         *)

\* The table a handler writes, its rows now and before the handler ran.
TableOf(op) ==
    CASE op \in {"create_character", "read_character", "update_character",
                 "delete_character", "read_characters"} -> "character"
      [] op \in {"create_jutsu", "read_jutsu", "update_jutsu", "delete_jutsu",
                 "add_jutsu_to_character", "read_jutsus"} -> "jutsu"
      [] OTHER -> "task"

Rows(t) ==
    CASE t = "character" -> characters [] t = "jutsu" -> jutsus [] OTHER -> tasks

RowsBefore(t) ==
    CASE t = "character" -> resp.before.characters
      [] t = "jutsu" -> resp.before.jutsus
      [] OTHER -> resp.before.tasks

\* No table was changed by the handler.
StoreUnchanged ==
    /\ characters = resp.before.characters
    /\ jutsus = resp.before.jutsus
    /\ tasks = resp.before.tasks

\* The request body names a character_id for which no Character existed.
NamesMissingCharacter(body) ==
    /\ "character_id" \in DOMAIN body
    /\ body.character_id \notin DOMAIN resp.before.characters

\* C1: every Jutsu row whose character_id is not null references a Character
\* row that exists, in every reachable state.
C1_ReferentialIntegrity ==
    \A j \in DOMAIN jutsus :
        jutsus[j].character_id # NoneInt => jutsus[j].character_id \in DOMAIN characters

\* C1 witness: a character owning a jutsu has just been deleted; the jutsu is
\* still there.
C1_Witness ==
    /\ resp.op = "delete_character"
    /\ resp.status = HTTP_204_NO_CONTENT
    /\ \E j \in DOMAIN jutsus :
          resp.before.jutsus[j].character_id = resp.args.id

CreateOps == {"create_character", "create_jutsu", "add_jutsu_to_character", "create_task"}

\* The body of the request passes the validation of the schema its handler
\* declares.
PassesValidation ==
    CASE resp.op = "create_character" -> CharacterCreate(resp.args.body).exc = NoExc
      [] resp.op = "update_character" -> CharacterUpdate(resp.args.body).exc = NoExc
      [] resp.op \in {"create_jutsu", "add_jutsu_to_character"} ->
            JutsuCreate(resp.args.body).exc = NoExc
      [] resp.op = "update_jutsu" -> JutsuUpdate(resp.args.body).exc = NoExc
      [] resp.op = "create_task" -> TaskCreate(resp.args.body).exc = NoExc
      [] resp.op = "update_task" -> TaskUpdate(resp.args.body).exc = NoExc
      [] OTHER -> TRUE

\* C2 as claimed: every successful create returns a positive id greater than
\* every id assigned before in that table (an id is never assigned twice).
C2_IdsNeverReused ==
    resp.op \in CreateOps /\ resp.status = HTTP_201_CREATED
    => /\ resp.body.id >= 1
       /\ \A p \in resp.before.assigned[TableOf(resp.op)] : resp.body.id > p

\* C3 as claimed: create of every repository succeeds on a valid payload: one
\* new row is persisted under an id never assigned before, its timestamps and
\* defaults are set, and it is returned.
C3_CreateSucceeds ==
    resp.op \in {"create_character", "create_jutsu", "create_task"} /\ PassesValidation
    => /\ resp.status = HTTP_201_CREATED
       /\ LET t == TableOf(resp.op)
              row == resp.body
          IN  /\ row.id \notin resp.before.assigned[t]
              /\ DOMAIN Rows(t) = DOMAIN RowsBefore(t) \cup {row.id}
              /\ Rows(t)[row.id] = row
              /\ \A i \in DOMAIN RowsBefore(t) : Rows(t)[i] = RowsBefore(t)[i]
              /\ row.created_at >= 1 /\ row.created_at <= now
              /\ \A f \in DOMAIN resp.args.body \cap DOMAIN row : row[f] = resp.args.body[f]
              /\ t = "task" /\ "status" \notin DOMAIN resp.args.body
                     => row.status = "pending"

\* C4: a Jutsu creation request naming a character_id for which no Character
\* exists is answered 404 or 400, and no jutsu row is persisted.
C4_CreateJutsuMissingCharacter ==
    resp.op = "create_jutsu" /\ NamesMissingCharacter(resp.args.body)
    => /\ resp.status \in {HTTP_404_NOT_FOUND, HTTP_400_BAD_REQUEST}
       /\ jutsus = resp.before.jutsus

\* C4 witness: such a request has been answered while another character exists.
C4_Witness ==
    /\ resp.op = "create_jutsu"
    /\ NamesMissingCharacter(resp.args.body)
    /\ DOMAIN resp.before.characters # {}
    /\ resp.status = HTTP_400_BAD_REQUEST

\* The NOT NULL text columns.
RequiredText == {"name", "village", "type", "title"}

\* The payload sets no NOT NULL column to null.
NoRequiredNull(body) ==
    /\ \A f \in DOMAIN body \cap RequiredText : body[f] # NoneText
    /\ "status" \in DOMAIN body => body.status # None

\* C5 as claimed: update of an existing entity succeeds and replaces exactly
\* the fields the payload sets (stated for payloads that set no required
\* field to null; the start_date / end_date stamps of Task are left aside).
C5_UpdateMerges ==
    /\ resp.op \in {"update_character", "update_jutsu", "update_task"}
    /\ resp.args.id \in DOMAIN RowsBefore(TableOf(resp.op))
    /\ NoRequiredNull(resp.args.body)
    /\ PassesValidation
    => /\ resp.status = HTTP_200_OK
       /\ LET t == TableOf(resp.op)
              id == resp.args.id
              body == resp.args.body
              old == RowsBefore(t)[id]
              new == Rows(t)[id]
          IN  /\ DOMAIN Rows(t) = DOMAIN RowsBefore(t)
              /\ \A i \in DOMAIN Rows(t) \ {id} : Rows(t)[i] = RowsBefore(t)[i]
              /\ \A f \in DOMAIN old \ {"start_date", "end_date"} :
                     new[f] = IF f \in DOMAIN body /\ f \notin {"id", "created_at"}
                              THEN body[f] ELSE old[f]

\* The request depends on an id that does not exist: the target of a read,
\* update or delete, the character of add_jutsu, or the character_id a jutsu
\* body names.
DependsOnMissingId ==
    \/ /\ resp.op \in {"read_character", "update_character", "delete_character",
                       "add_jutsu_to_character"}
       /\ resp.args.id \notin DOMAIN resp.before.characters
    \/ /\ resp.op \in {"read_jutsu", "update_jutsu", "delete_jutsu"}
       /\ resp.args.id \notin DOMAIN resp.before.jutsus
    \/ /\ resp.op \in {"read_task", "update_task", "delete_task"}
       /\ resp.args.id \notin DOMAIN resp.before.tasks
    \/ /\ resp.op \in {"create_jutsu", "update_jutsu"}
       /\ NamesMissingCharacter(resp.args.body)

\* C6 as claimed: a request that passes validation and depends on an id that
\* does not exist is answered 404, never 400 or 500.
C6_MissingIdIsNotFound ==
    DependsOnMissingId /\ PassesValidation => resp.status = HTTP_404_NOT_FOUND

\* C7: delete of an id that is not in the table is answered 404 and leaves
\* the three tables unchanged, for Character, Jutsu and Task.
C7_DeleteMissingIsNotFound ==
    /\ resp.op \in {"delete_character", "delete_jutsu", "delete_task"}
    /\ resp.args.id \notin DOMAIN RowsBefore(TableOf(resp.op))
    => resp.status = HTTP_404_NOT_FOUND /\ StoreUnchanged

\* C7 witness: a jutsu that was created and deleted is deleted again, and the
\* answer is 404.
C7_Witness ==
    /\ resp.op = "delete_jutsu"
    /\ resp.args.id \in resp.before.assigned.jutsu
    /\ resp.args.id \notin DOMAIN resp.before.jutsus
    /\ resp.status = HTTP_404_NOT_FOUND

\* C8: add_jutsu_to_character, called with a payload that passes validation,
\* answers 404 and creates no jutsu when the character does not exist;
\* otherwise it creates exactly one jutsu, whose character_id is the
\* character's id and whose other fields are the payload's, and returns that
\* row.
C8_AddJutsu ==
    resp.op = "add_jutsu_to_character" /\ PassesValidation
    => LET id == resp.args.id
           body == resp.args.body
           old == resp.before.jutsus
       IN  IF id \notin DOMAIN resp.before.characters
           THEN resp.status = HTTP_404_NOT_FOUND /\ jutsus = old
           ELSE /\ resp.status = HTTP_201_CREATED
                /\ \E j \in DOMAIN jutsus \ DOMAIN old :
                     /\ DOMAIN jutsus = DOMAIN old \cup {j}
                     /\ \A k \in DOMAIN old : jutsus[k] = old[k]
                     /\ jutsus[j].character_id = id
                     /\ \A f \in JutsuBaseFields : jutsus[j][f] = body[f]
                     /\ jutsus[j].id = j
                     /\ resp.body = jutsus[j]

\* C8 witness: a jutsu was added to an existing character although the body
\* named another character.
C8_Witness ==
    /\ resp.op = "add_jutsu_to_character"
    /\ resp.status = HTTP_201_CREATED
    /\ "character_id" \in DOMAIN resp.args.body
    /\ resp.args.body.character_id # resp.args.id
    /\ resp.body.character_id = resp.args.id

ListOps == {"read_characters", "read_jutsus", "read_tasks"}

\* The ids of the rows the listing's filter keeps.
Matching ==
    CASE resp.op = "read_characters" -> CharacterFilter(resp.args.search)
      [] resp.op = "read_jutsus" -> JutsuFilter(resp.args.search, NoneInt)
      [] OTHER -> TaskFilter(resp.args.search)

\* The position, counted from 0, of id m when the ids of M are sorted
\* ascending.
Position(m, M) == Cardinality({j \in M : j < m})

\* C9: with the tables unchanged during the call, a listing answers 200,
\* its items are the rows matching the filter that stand at positions
\* (page-1)*size .. page*size-1 of the matching rows sorted by id ascending,
\* in that order (so at most size of them), and its total is the number of
\* matching rows whatever page and size are.
C9_ListPage ==
    resp.op \in ListOps =>
        LET M == Matching
            lo == (resp.args.page - 1) * resp.args.size
            hi == resp.args.page * resp.args.size - 1
            wanted == {m \in M : Position(m, M) \in lo..hi}
            items == resp.body.items
        IN  /\ resp.status = HTTP_200_OK
            /\ StoreUnchanged
            /\ resp.body.total = Cardinality(M)
            /\ Len(items) = Cardinality(wanted)
            /\ Len(items) <= resp.args.size
            /\ \A k \in 1..Len(items) :
                  /\ items[k].id \in wanted
                  /\ Position(items[k].id, M) = lo + k - 1
                  /\ items[k] = Rows(TableOf(resp.op))[items[k].id]

\* A second page holding one row while the filter drops a row of the table.
C9_Witness ==
    /\ resp.op \in ListOps
    /\ resp.args.search # NoneText
    /\ resp.args.page = 2
    /\ Len(resp.body.items) = 1
    /\ resp.body.total = 2
    /\ Cardinality(DOMAIN Rows(TableOf(resp.op))) = 3

\* C10: the pages of a listing is the ceiling of total / size, that is the
\* least n >= 0 with n * size >= total; it is 0 when total is 0.
C10_PagesIsCeiling ==
    resp.op \in ListOps =>
        LET total == Cardinality(Matching)
            size == resp.args.size
            pages == resp.body.pages
        IN  /\ pages >= 0
            /\ pages * size >= total
            /\ (pages - 1) * size < total
            /\ total = 0 => pages = 0

\* Three matching rows listed two to a page: two pages.
C10_Witness ==
    /\ resp.op \in ListOps
    /\ resp.body.total = 3
    /\ resp.args.size = 2
    /\ resp.body.pages = 2

\* The ceiling of total / size: the least n >= 0 with n * size >= total.
Ceil(total, size) ==
    CHOOSE n \in 0..total : n * size >= total /\ \A k \in 0..(n - 1) : k * size < total

\* C11: in every list result has_next is (page < pages) and has_prev is
\* (page > 1), pages being the ceiling of matching rows / size.
C11_HasNextHasPrev ==
    resp.op \in ListOps =>
        /\ resp.body.has_next
              = (resp.args.page < Ceil(Cardinality(Matching), resp.args.size))
        /\ resp.body.has_prev = (resp.args.page > 1)
        /\ resp.body.page = resp.args.page

\* A middle page: rows before it and rows after it.
C11_Witness ==
    /\ resp.op \in ListOps
    /\ resp.args.page = 2
    /\ resp.body.pages = 3
    /\ resp.body.has_next
    /\ resp.body.has_prev

\* C12: a list call with a page greater than pages raises no error: it
\* answers 200 with no items, total the number of matching rows and pages
\* the ceiling of total / size.
C12_PagePastTheEnd ==
    /\ resp.op \in ListOps
    /\ resp.args.page > Ceil(Cardinality(Matching), resp.args.size)
    => /\ resp.status = HTTP_200_OK
       /\ resp.body.items = <<>>
       /\ resp.body.total = Cardinality(Matching)
       /\ resp.body.pages = Ceil(Cardinality(Matching), resp.args.size)

\* Page 3 of a listing of two pages.
C12_Witness ==
    /\ resp.op \in ListOps
    /\ resp.status = HTTP_200_OK
    /\ resp.args.page = 3
    /\ resp.body.pages = 2
    /\ resp.body.total = 2

\* C13 as claimed: whenever page * size is greater than the number of
\* matching rows, items is empty and total and pages are right.
C13_EmptyBeyondTotal ==
    /\ resp.op \in ListOps
    /\ resp.args.page * resp.args.size > Cardinality(Matching)
    => /\ resp.body.items = <<>>
       /\ resp.body.total = Cardinality(Matching)
       /\ resp.body.pages = Ceil(Cardinality(Matching), resp.args.size)

\* C13 amended: whenever (page - 1) * size is at least the number of
\* matching rows, items is empty and total and pages are right; a page that
\* starts before the end of the matching rows holds the rows left, also when
\* page * size is greater than their number.
C13_EmptyFromOffset ==
    resp.op \in ListOps =>
        LET total == Cardinality(Matching)
            offset == (resp.args.page - 1) * resp.args.size
        IN  /\ resp.body.total = total
            /\ resp.body.pages = Ceil(total, resp.args.size)
            /\ offset >= total => resp.body.items = <<>>
            /\ offset < total =>
                  Len(resp.body.items)
                     = IF total - offset < resp.args.size THEN total - offset
                       ELSE resp.args.size

\* The offset of page 2 is the number of matching rows: nothing is left.
C13_Witness ==
    /\ resp.op \in ListOps
    /\ resp.args.search # NoneText
    /\ resp.args.page = 2
    /\ resp.args.size = 2
    /\ resp.body.total = 2
    /\ resp.body.items = <<>>

\* C14 as claimed: TaskService.update on an existing task stamps start_date
\* with the current time and leaves end_date alone when the payload's status
\* is in_progress, stamps end_date with the current time when it is completed
\* or cancelled, and changes neither for another status or no status.
C14_StatusStamps ==
    /\ resp.op = "update_task"
    /\ resp.args.id \in DOMAIN resp.before.tasks
    => /\ resp.status = HTTP_200_OK
       /\ LET old == resp.before.tasks[resp.args.id]
              new == tasks[resp.args.id]
              body == resp.args.body
          IN  IF "status" \in DOMAIN body /\ body.status = "in_progress"
              THEN new.start_date = now /\ new.end_date = old.end_date
              ELSE IF "status" \in DOMAIN body /\ body.status \in {"completed", "cancelled"}
              THEN new.end_date = now
              ELSE new.start_date = old.start_date /\ new.end_date = old.end_date

\* A request in flight holds a session.
InFlight(q) == requests[q].pc # "idle"

\* No session is used after it was closed, and no two requests in flight
\* hold the same session.
SessionSafety ==
    /\ \A s \in 1..MaxSessions : ~sessions[s].stale
    /\ \A q \in Requests : InFlight(q) => sessions[requests[q].session].state = "open"
    /\ \A p, q \in Requests :
          InFlight(p) /\ InFlight(q) /\ p # q => requests[p].session # requests[q].session

\* C15: every session a request acquired is closed in the end, whether the
\* handler returned or raised; no session is used after it was closed and
\* none is held by two requests.
C15_SessionsReleased ==
    /\ []SessionSafety
    /\ \A s \in 1..MaxSessions :
          (sessions[s].state = "open") ~> (sessions[s].state = "closed")

\* The session of a request whose handler raised 404 has been closed while
\* the other request still holds its own session.
C15_Witness ==
    /\ \E s \in 1..MaxSessions :
          sessions[s].state = "closed" /\ sessions[s].status = HTTP_404_NOT_FOUND
    /\ \E q \in Requests : requests[q].pc = "handled"

\* Requests p and q, both in flight, have updated the same character, q
\* after p, with payloads that set no required column to null; the
\* character existed when each of them looked for it (404 otherwise).
UpdatedInTurn(p, q) ==
    /\ p # q
    /\ requests[p].pc = "handled" /\ requests[q].pc = "handled"
    /\ requests[p].op = "update_character" /\ requests[q].op = "update_character"
    /\ requests[p].args.id = requests[q].args.id
    /\ requests[p].args.id \in DOMAIN characters
    /\ requests[p].status # HTTP_404_NOT_FOUND /\ requests[q].status # HTTP_404_NOT_FOUND
    /\ requests[p].session \in requests[q].saw
    /\ \A x \in {p, q} : NoRequiredNull(requests[x].args.body)

\* C16: of two updates of one existing character by requests in flight
\* together neither is rejected, and every field both payloads set holds
\* the value of the update that committed last.
C16_LastWriteWins ==
    \A p, q \in Requests :
        UpdatedInTurn(p, q) =>
            /\ requests[p].status = HTTP_200_OK
            /\ requests[q].status = HTTP_200_OK
            /\ \A f \in DOMAIN requests[p].args.body \cap DOMAIN requests[q].args.body :
                  characters[requests[q].args.id][f] = requests[q].args.body[f]

\* Both payloads set name, to different values; the request that committed
\* last had acquired its session first.
C16_Witness ==
    \E p, q \in Requests :
        /\ UpdatedInTurn(p, q)
        /\ "name" \in DOMAIN requests[p].args.body \cap DOMAIN requests[q].args.body
        /\ requests[p].args.body.name # requests[q].args.body.name
        /\ requests[q].session < requests[p].session

\* C17: update never changes updated_at: whatever a handler answers, every
\* Character and every Jutsu that was there before it ran has the updated_at
\* it had, so that after any sequence of updates a row's updated_at is still
\* the value its creation gave it, the reading of the clock that followed
\* the reading of created_at.
C17_UpdatedAtFrozen ==
    /\ \A i \in DOMAIN characters \cap DOMAIN resp.before.characters :
          characters[i].updated_at = resp.before.characters[i].updated_at
    /\ \A j \in DOMAIN jutsus \cap DOMAIN resp.before.jutsus :
          jutsus[j].updated_at = resp.before.jutsus[j].updated_at
    /\ \A i \in DOMAIN characters : characters[i].created_at <= characters[i].updated_at
    /\ \A j \in DOMAIN jutsus : jutsus[j].created_at <= jutsus[j].updated_at

\* A character whose updated_at was read after its created_at has been
\* renamed at a later time still.
C17_Witness ==
    /\ resp.op = "update_character"
    /\ resp.status = HTTP_200_OK
    /\ "name" \in DOMAIN resp.args.body
    /\ characters[resp.args.id].name # resp.before.characters[resp.args.id].name
    /\ characters[resp.args.id].created_at < characters[resp.args.id].updated_at
    /\ characters[resp.args.id].updated_at < now

\* C18: the total and the items of one list call describe the same rows:
\* total is the number of rows the count query counted, and items are the
\* rows at positions (page-1)*size .. page*size-1 of those rows sorted by
\* id, whatever other requests in flight create or delete.
C18_ListIsOneSnapshot ==
    \A q \in Requests :
        requests[q].pc = "handled" /\ requests[q].op = "read_characters" =>
            LET M == requests[q].matched
                lo == (requests[q].args.page - 1) * requests[q].args.size
                hi == requests[q].args.page * requests[q].args.size - 1
                items == requests[q].body.items
            IN  /\ requests[q].body.total = Cardinality(M)
                /\ Len(items) = Cardinality({m \in M : Position(m, M) \in lo..hi})
                /\ \A k \in 1..Len(items) :
                      items[k].id \in M /\ Position(items[k].id, M) = lo + k - 1

\* A list call has answered with a row; the other request in flight had
\* created a row after the list request had acquired its session.
C18_Witness ==
    \E p, q \in Requests :
        /\ requests[q].pc = "handled" /\ requests[q].op = "read_characters"
        /\ requests[p].pc = "handled" /\ requests[p].op = "create_character"
        /\ requests[p].session \in requests[q].saw
        /\ requests[q].session < requests[p].session
        /\ Len(requests[q].body.items) >= 1

====
